---------------------------- MODULE Spec2Model ----------------------------
(***************************************************************************)
(* Model of postgres_geometry/fields.py: the Point and Circle values, the  *)
(* text codec shared by the sequence fields (PointMixin) and the           *)
(* get_prep_value / to_python methods of the six geometry fields, as they  *)
(* behave under CPython 3.                                                 *)
(*                                                                         *)
(* Python values are tagged records:                                       *)
(*   None            [t |-> "None"]                                        *)
(*   bool            [t |-> "bool", v |-> TRUE or FALSE]                   *)
(*   int / float     [t |-> "int" | "float", sign |-> 1 or -1,             *)
(*                    m |-> <<decimal digits 0..9>>, e |-> E,              *)
(*                    inf |-> TRUE or FALSE]                               *)
(*                   = sign * m * 10^E, with m written without leading or  *)
(*                   trailing zeros; zero has m = <<>> and E = 0 (-0.0 is  *)
(*                   the float zero of sign -1), inf and -inf have         *)
(*                   inf = TRUE and m = <<>>.  A float is held as the      *)
(*                   shortest decimal that float() reads as that binary64  *)
(*                   value, which is the decimal repr() writes.            *)
(*   str             [t |-> "str", s |-> <<one-character strings>>]        *)
(*   list            [t |-> "list", items |-> <<values>>]                  *)
(*   tuple           [t |-> "tuple", items |-> <<values>>]                 *)
(*   Point           [t |-> "Point", x |-> value, y |-> value]             *)
(*   Circle          [t |-> "Circle", center |-> value, radius |-> value]  *)
(* and an exception that leaves a call is                                  *)
(*                   [t |-> "raise", exc |-> class name, msg |-> message]. *)
(* A character TLA+ has no escape for is written as its Python escape, a   *)
(* string such as "\\x0b".                                                  *)
(***************************************************************************)
EXTENDS Integers, Sequences, FiniteSets, TLC

VARIABLES call, arg, ret, orig

vars == <<call, arg, ret, orig>>

---------------------------------------------------------------------------
(* Bounds of the explored inputs *)

\* longest point sequence handed to a sequence field
MaxLen == 3
\* most positional arguments handed to Circle(...)
MaxArgs == 4

---------------------------------------------------------------------------
(* Python values *)

None == [t |-> "None"]

Bool(b) == [t |-> "bool", v |-> b]

Str(s) == [t |-> "str", s |-> s]

List(items) == [t |-> "list", items |-> items]

Tuple(items) == [t |-> "tuple", items |-> items]

Raise(exc, msg) == [t |-> "raise", exc |-> exc, msg |-> msg]

---------------------------------------------------------------------------
(* Natural numbers of any size: sequences of decimal digits, the most      *)
(* significant first and not a zero; <<>> is zero                          *)

Nought(n) == [i \in 1..n |-> 0]

\* index of the first digit of d from i on that is not zero
RECURSIVE Lead(_, _)
Lead(d, i) == IF i > Len(d) THEN i ELSE IF d[i] # 0 THEN i ELSE Lead(d, i + 1)

\* d without its leading zeros
Strip(d) == SubSeq(d, Lead(d, 1), Len(d))

\* index of the last digit of d up to i that is not c, 0 when there is none
RECURSIVE LastNot(_, _, _)
LastNot(d, c, i) == IF i < 1 THEN 0 ELSE IF d[i] # c THEN i ELSE LastNot(d, c, i - 1)

\* the digits of the natural number n
RECURSIVE NatDigits(_)
NatDigits(n) == IF n = 0 THEN <<>> ELSE NatDigits(n \div 10) \o <<n % 10>>

\* d + 1
Succ(d) ==
    LET n == Len(d)
        j == LastNot(d, 9, n)
    IN  IF j = 0 THEN <<1>> \o Nought(n)
        ELSE SubSeq(d, 1, j - 1) \o <<d[j] + 1>> \o Nought(n - j)

\* d - 1, for d above zero
Pred(d) ==
    LET n == Len(d)
        j == LastNot(d, 0, n)
    IN  Strip(SubSeq(d, 1, j - 1) \o <<d[j] - 1>> \o [i \in 1..(n - j) |-> 9])

\* 2 * d: a digit takes a carry of one from a next digit of 5 or more
Dbl(d) ==
    LET n == Len(d)
    IN  (IF n > 0 /\ d[1] >= 5 THEN <<1>> ELSE <<>>)
        \o [i \in 1..n |-> (2 * d[i] + (IF i < n /\ d[i + 1] >= 5 THEN 1 ELSE 0)) % 10]

\* d \div 2: a digit takes ten from an odd digit before it
Halve(d) ==
    Strip(<<>> \o [i \in 1..Len(d) |->
                      (d[i] + (IF i > 1 /\ d[i - 1] % 2 = 1 THEN 10 ELSE 0)) \div 2])

\* 5 * d
Times5(d) == Halve(d \o <<0>>)

\* d * 2^n and d * 5^n, by halves of n; the first half is computed before
\* the second starts from it
RECURSIVE Times2N(_, _)
Times2N(d, n) ==
    IF n = 0 THEN d
    ELSE IF n = 1 THEN Dbl(d)
    ELSE LET h == Times2N(d, n \div 2)
         IN  IF Len(h) >= 0 THEN Times2N(h, n - n \div 2) ELSE h

RECURSIVE Times5N(_, _)
Times5N(d, n) ==
    IF n = 0 THEN d
    ELSE IF n = 1 THEN Times5(d)
    ELSE LET h == Times5N(d, n \div 2)
         IN  IF Len(h) >= 0 THEN Times5N(h, n - n \div 2) ELSE h

---------------------------------------------------------------------------
(* Decimals above zero: the digits d of a natural number and an exponent   *)
(* e, for d * 10^e                                                         *)

Decimal(d, e) == [d |-> d, e |-> e]

\* x with its trailing zeros moved into the exponent
Trim(x) ==
    LET j == LastNot(x.d, 0, Len(x.d))
    IN  Decimal(SubSeq(x.d, 1, j), x.e + Len(x.d) - j)

\* first index from i on at which a and b, continued with zeros, differ; 0
\* when there is none
RECURSIVE Differ(_, _, _)
Differ(a, b, i) ==
    LET x == IF i <= Len(a) THEN a[i] ELSE 0
        y == IF i <= Len(b) THEN b[i] ELSE 0
    IN  IF i > Len(a) /\ i > Len(b) THEN 0
        ELSE IF x # y THEN i
        ELSE Differ(a, b, i + 1)

\* -1, 0 or 1 as a < b, a = b or a > b
DecCmp(a, b) ==
    LET ta == a.e + Len(a.d)
        tb == b.e + Len(b.d)
        i == Differ(a.d, b.d, 1)
        x == IF i <= Len(a.d) THEN a.d[i] ELSE 0
        y == IF i <= Len(b.d) THEN b.d[i] ELSE 0
    IN  IF ta # tb THEN (IF ta < tb THEN 0 - 1 ELSE 1)
        ELSE IF i = 0 THEN 0
        ELSE IF x < y THEN 0 - 1 ELSE 1

---------------------------------------------------------------------------
(* binary64, the C double of a Python float: k * 2^p with k < 2^53, and    *)
(* 2^52 <= k unless p is the least exponent, -1074                         *)

TwoTo52 == <<4, 5, 0, 3, 5, 9, 9, 6, 2, 7, 3, 7, 0, 4, 9, 6>>

TwoTo53 == <<9, 0, 0, 7, 1, 9, 9, 2, 5, 4, 7, 4, 0, 9, 9, 2>>

MinP == 0 - 1074

MaxP == 971

\* v / 2^p, which is v * 2^-p, or v * 5^p / 10^p
Scaled(v, p) ==
    IF p < 0 THEN Decimal(Times2N(v.d, 0 - p), v.e)
    ELSE Decimal(Times5N(v.d, p), v.e - p)

\* the integer part of r
IntPart(r) ==
    IF r.e >= 0 THEN r.d \o Nought(r.e) ELSE SubSeq(r.d, 1, Len(r.d) + r.e)

\* r = v / 2^p halved, and p raised, until r is under 2^53
RECURSIVE Fit(_, _)
Fit(r, p) ==
    IF DecCmp(Decimal(TwoTo53, 0), r) <= 0
    THEN Fit(Decimal(Times5(r.d), r.e - 1), p + 1)
    ELSE [r |-> r, p |-> p]

\* the fraction of r is above one half, or is one half next to an odd
\* integer part: round-half-even rounds r up
RoundUp(r) ==
    LET n == Len(r.d) + r.e
        h == IF r.e >= 0 \/ n < 0 THEN 0 ELSE r.d[n + 1]
        rest == r.e < 0 /\ n >= 0 /\ \E i \in (n + 2)..Len(r.d) : r.d[i] # 0
        odd == r.e < 0 /\ n >= 1 /\ r.d[n] % 2 = 1
    IN  h > 5 \/ (h = 5 /\ (rest \/ odd))

\* the decimal exponent of v: 10^Top(v) <= v < 10^(Top(v) + 1)
Top(v) == v.e + Len(v.d) - 1

\* an exponent under log2(v) - 52, and MinP at least
StartP(v) ==
    IF (Top(v) * 3321928) \div 1000000 - 53 < MinP THEN MinP
    ELSE (Top(v) * 3321928) \div 1000000 - 53

\* k * 2^p, where a k rounded up to 2^53 is 2^52 of the next exponent
Carried(k, p) ==
    IF k = TwoTo53 THEN [k |-> TwoTo52, p |-> p + 1] ELSE [k |-> k, p |-> p]

\* f.r * 2^f.p rounded to an integer number of 2^f.p, ties to even
Rounded(f) ==
    Carried(IF RoundUp(f.r) THEN Succ(IntPart(f.r)) ELSE IntPart(f.r), f.p)

\* the binary64 nearest to the decimal v, ties to even: [k, p] for k * 2^p;
\* p above MaxP is an overflow, k = <<>> an underflow to zero.  The search
\* for p starts under log2(v), from the decimal exponent of v.
Binary64(v) == Rounded(Fit(Scaled(v, StartP(v)), StartP(v)))

\* b.k * 2^b.p written out as a decimal
Exact(b) ==
    IF b.p >= 0 THEN Decimal(Times2N(b.k, b.p), 0)
    ELSE Decimal(Times5N(b.k, 0 - b.p), b.p)

\* the decimals that read as the binary64 b lie between Lower(b) and
\* Upper(b), half way to the binary64 values next to b; the two ends read
\* as b when k is even
Upper(b) == Exact([k |-> Succ(Dbl(b.k)), p |-> b.p - 1])

Lower(b) ==
    IF b.k = TwoTo52 /\ b.p > MinP
    THEN Exact([k |-> Succ(Dbl(Pred(Dbl(b.k)))), p |-> b.p - 2])
    ELSE Exact([k |-> Pred(Dbl(b.k)), p |-> b.p - 1])

\* the decimal of the fewest digits, n or more, between lo and hi, and of
\* these the nearest to x
RECURSIVE Shortest(_, _, _, _, _)
Shortest(x, lo, hi, even, n) ==
    IF Len(x.d) <= n THEN x
    ELSE LET down == Decimal(SubSeq(x.d, 1, n), x.e + Len(x.d) - n)
             up == Decimal(Succ(down.d), down.e)
             okd == DecCmp(lo, down) < 0 \/ (even /\ DecCmp(lo, down) = 0)
             oku == DecCmp(up, hi) < 0 \/ (even /\ DecCmp(up, hi) = 0)
             h == x.d[n + 1]
             rest == \E i \in (n + 2)..Len(x.d) : x.d[i] # 0
             nearer == IF h > 5 \/ (h = 5 /\ rest) THEN up
                       ELSE IF h < 5 THEN down
                       ELSE IF down.d[n] % 2 = 0 THEN down ELSE up
         IN  IF okd /\ oku THEN nearer
             ELSE IF okd THEN down
             ELSE IF oku THEN up
             ELSE Shortest(x, lo, hi, even, n + 1)

\* the decimal repr() writes for the binary64 b
Repr(b) ==
    Trim(Shortest(Trim(Exact(b)), Lower(b), Upper(b), b.k[Len(b.k)] % 2 = 0, 1))

---------------------------------------------------------------------------
(* int and float *)

Number(t, sign, x) ==
    [t |-> t, sign |-> sign, m |-> x.d, e |-> IF x.d = <<>> THEN 0 ELSE x.e, inf |-> FALSE]

Abs(n) == IF n < 0 THEN 0 - n ELSE n

\* the int n
PyInt(n) == Number("int", IF n < 0 THEN 0 - 1 ELSE 1, Trim(Decimal(NatDigits(Abs(n)), 0)))

\* the float that repr() writes as m * 10^e
PyFloat(m, e) == Number("float", IF m < 0 THEN 0 - 1 ELSE 1, Trim(Decimal(NatDigits(Abs(m)), e)))

\* the floats 0.0 (sign = 1) and -0.0 (sign = -1)
Zero(sign) == Number("float", sign, Decimal(<<>>, 0))

NegZero == Zero(0 - 1)

\* the floats inf (sign = 1) and -inf (sign = -1)
Inf(sign) == [t |-> "float", sign |-> sign, m |-> <<>>, e |-> 0, inf |-> TRUE]

IsInf(v) == v.inf

IsNumber(v) == v.t \in {"int", "float"}

\* -1, 0 or 1 as v < 0, v = 0 or v > 0
SignNum(v) == IF v.m = <<>> /\ ~v.inf THEN 0 ELSE v.sign

\* the decimal by which |v| is compared with |w|.  The shortest decimals of
\* two floats are ordered as the floats are, and the shortest decimal of a
\* float is ordered with an int of up to 15 digits, which binary64 holds
\* exactly, as the float is; against a longer int the float is written out
\* exactly.
Against(v, w) ==
    IF v.t = "float" /\ w.t = "int" /\ w.e + Len(w.m) > 15
    THEN Exact(Binary64(Decimal(v.m, v.e)))
    ELSE Decimal(v.m, v.e)

\* -1, 0 or 1 as |a| < |b|, |a| = |b| or |a| > |b|
MagCmp(a, b) == DecCmp(Against(a, b), Against(b, a))

\* a == b on numbers: int and float compare by value, -0.0 equals 0
NumEq(a, b) ==
    IF SignNum(a) # SignNum(b) THEN FALSE
    ELSE IF SignNum(a) = 0 THEN TRUE
    ELSE IF IsInf(a) \/ IsInf(b) THEN IsInf(a) /\ IsInf(b)
    ELSE MagCmp(a, b) = 0

\* a <= b on numbers
NumLe(a, b) ==
    IF SignNum(a) # SignNum(b) THEN SignNum(a) < SignNum(b)
    ELSE IF SignNum(a) = 0 THEN TRUE
    ELSE IF IsInf(a) \/ IsInf(b) THEN IF SignNum(a) > 0 THEN IsInf(b) ELSE IsInf(a)
    ELSE IF SignNum(a) > 0 THEN MagCmp(a, b) <= 0
    ELSE MagCmp(a, b) >= 0

---------------------------------------------------------------------------
(* Text: str(number) and float(text) *)

Digits == <<"0", "1", "2", "3", "4", "5", "6", "7", "8", "9">>

IsDigit(c) == \E i \in 1..10 : Digits[i] = c

DigitVal(c) == (CHOOSE i \in 1..10 : Digits[i] = c) - 1

\* the text of the digits d, and the digits of the text w
DigitText(d) == <<>> \o [i \in 1..Len(d) |-> Digits[d[i] + 1]]

DigitsOf(w) == <<>> \o [i \in 1..Len(w) |-> DigitVal(w[i])]

\* decimal digits of n >= 0
RECURSIVE NatStr(_)
NatStr(n) == IF n < 10 THEN <<Digits[n + 1]>> ELSE NatStr(n \div 10) \o <<Digits[(n % 10) + 1]>>

RECURSIVE Zeros(_)
Zeros(n) == IF n <= 0 THEN <<>> ELSE <<"0">> \o Zeros(n - 1)

Sign(sign) == IF sign < 0 THEN <<"-">> ELSE <<>>

\* str(int)
IntStr(v) ==
    IF v.m = <<>> THEN <<"0">> ELSE Sign(v.sign) \o DigitText(v.m) \o Zeros(v.e)

\* repr(float), which str() and format(x, '') give: positional notation when
\* the decimal exponent X of the leading digit has -4 <= X < 16, else d.ddde+XX
FloatStr(v) ==
    LET d == IF v.m = <<>> THEN <<"0">> ELSE DigitText(v.m)
        n == Len(d)
        X == v.e + n - 1
        xs == NatStr(Abs(X))
        positional ==
            IF v.e >= 0 THEN d \o Zeros(v.e) \o <<".", "0">>
            ELSE IF n > 0 - v.e
                 THEN SubSeq(d, 1, n + v.e) \o <<".">> \o SubSeq(d, n + v.e + 1, n)
                 ELSE <<"0", ".">> \o Zeros(0 - v.e - n) \o d
        scientific ==
            <<d[1]>> \o (IF n > 1 THEN <<".">> \o SubSeq(d, 2, n) ELSE <<>>)
            \o <<"e", IF X < 0 THEN "-" ELSE "+">>
            \o (IF Len(xs) < 2 THEN <<"0">> ELSE <<>>) \o xs
    IN  IF IsInf(v) THEN Sign(v.sign) \o <<"i", "n", "f">>
        ELSE Sign(v.sign) \o (IF X >= 0 - 4 /\ X < 16 THEN positional ELSE scientific)

\* '{0}'.format(number) and str(number)
NumStr(v) == IF v.t = "int" THEN IntStr(v) ELSE FloatStr(v)

---------------------------------------------------------------------------
(* _FLOAT_RE and float() *)

AllDigits(w) == \A i \in 1..Len(w) : IsDigit(w[i])

\* first index >= from of a character of set cs in s, 0 when there is none
RECURSIVE IndexOf(_, _, _)
IndexOf(s, cs, from) ==
    IF from > Len(s) THEN 0
    ELSE IF s[from] \in cs THEN from
    ELSE IndexOf(s, cs, from + 1)

Unsigned(w) == IF Len(w) > 0 /\ w[1] \in {"-", "+"} THEN Tail(w) ELSE w

\* the parts of a literal: mantissa text before [eE], exponent text after it
Mantissa(w) ==
    LET b == Unsigned(w)
        k == IndexOf(b, {"e", "E"}, 1)
    IN  IF k = 0 THEN b ELSE SubSeq(b, 1, k - 1)

Exponent(w) ==
    LET b == Unsigned(w)
        k == IndexOf(b, {"e", "E"}, 1)
    IN  SubSeq(b, k + 1, Len(b))

HasExponent(w) == IndexOf(Unsigned(w), {"e", "E"}, 1) > 0

\* [0-9]*\.?[0-9]+
MantissaOk(mt) ==
    LET j == IndexOf(mt, {"."}, 1)
    IN  IF j = 0 THEN Len(mt) > 0 /\ AllDigits(mt)
        ELSE /\ AllDigits(SubSeq(mt, 1, j - 1))
             /\ j < Len(mt)
             /\ AllDigits(SubSeq(mt, j + 1, Len(mt)))

\* [-+]?[0-9]+
ExponentOk(ex) == Len(Unsigned(ex)) > 0 /\ AllDigits(Unsigned(ex))

\* w is, from its first to its last character, a match of
\* [-+]?[0-9]*\.?[0-9]+([eE][-+]?[0-9]+)?
FLOAT_RE(w) ==
    /\ MantissaOk(Mantissa(w))
    /\ HasExponent(w) => ExponentOk(Exponent(w))

\* the value of at most nine digits
RECURSIVE DigitsVal(_)
DigitsVal(d) ==
    IF Len(d) = 0 THEN 0
    ELSE 10 * DigitsVal(SubSeq(d, 1, Len(d) - 1)) + d[Len(d)]

SignOf(w) == IF Len(w) > 0 /\ w[1] = "-" THEN 0 - 1 ELSE 1

\* the exponent a literal writes; one of ten digits or more, which takes a
\* value beyond binary64 whatever the mantissa of a literal is, counts as
\* 10^9
ExponentVal(ex) ==
    LET d == Strip(DigitsOf(Unsigned(ex)))
    IN  SignOf(ex) * (IF Len(d) > 9 THEN 1000000000 ELSE DigitsVal(d))

\* the float of sign sgn and of the binary64 b
FromBinary64(b, sgn) ==
    IF b.p > MaxP THEN Inf(sgn)
    ELSE IF b.k = <<>> THEN Zero(sgn)
    ELSE Number("float", sgn, Repr(b))

\* the float of sign sgn nearest to the decimal v > 0: inf beyond the
\* largest binary64, zero under half the smallest.  A decimal of at most
\* 15 digits between 1e-307 and 1e308 is the shortest that reads as its
\* binary64; any other goes through Binary64 and Repr.
FloatOf(v, sgn) ==
    IF Top(v) > 309 THEN Inf(sgn)
    ELSE IF Top(v) < 0 - 326 THEN Zero(sgn)
    ELSE IF Len(Trim(v).d) <= 15 /\ Top(v) >= 0 - 307 /\ Top(v) <= 307
         THEN Number("float", sgn, Trim(v))
    ELSE FromBinary64(Binary64(v), sgn)

\* float(w) of a literal w that FLOAT_RE accepts
Float(w) ==
    LET mt == Mantissa(w)
        j == IndexOf(mt, {"."}, 1)
        ip == IF j = 0 THEN mt ELSE SubSeq(mt, 1, j - 1)
        fp == IF j = 0 THEN <<>> ELSE SubSeq(mt, j + 1, Len(mt))
        ex == IF HasExponent(w) THEN ExponentVal(Exponent(w)) ELSE 0
        d == Strip(DigitsOf(ip \o fp))
    IN  IF d = <<>> THEN Zero(SignOf(w))
        ELSE FloatOf(Decimal(d, ex - Len(fp)), SignOf(w))

---------------------------------------------------------------------------
(* str.format with one positional argument *)

\* str(v), == and <= of Python values, defined with class Circle below
RECURSIVE PyStr(_), PyEq(_, _), PyLe(_, _)

\* the replacement field named by the text between "{" and "}"
FieldText(v, name) ==
    CASE name = <<>> -> PyStr(v)
      [] name = <<"0", ".", "x">> -> PyStr(v.x)
      [] name = <<"0", ".", "y">> -> PyStr(v.y)
      [] name = <<"0", ".", "c", "e", "n", "t", "e", "r", ".", "x">> -> PyStr(v.center.x)
      [] name = <<"0", ".", "c", "e", "n", "t", "e", "r", ".", "y">> -> PyStr(v.center.y)
      [] name = <<"0", ".", "r", "a", "d", "i", "u", "s">> -> PyStr(v.radius)

\* the template is scanned left to right: "{{" and "}}" are escapes, "{"
\* opens a field that runs to the next "}", and a "}" that neither closes a
\* field nor is doubled ends the scan with ValueError
RECURSIVE FormatError(_, _)
FormatError(tpl, i) ==
    IF i > Len(tpl) THEN ""
    ELSE IF tpl[i] = "{"
         THEN IF i < Len(tpl) /\ tpl[i + 1] = "{" THEN FormatError(tpl, i + 2)
              ELSE IF IndexOf(tpl, {"}"}, i + 1) = 0 THEN "expected '}' before end of string"
              ELSE FormatError(tpl, IndexOf(tpl, {"}"}, i + 1) + 1)
    ELSE IF tpl[i] = "}"
         THEN IF i < Len(tpl) /\ tpl[i + 1] = "}" THEN FormatError(tpl, i + 2)
              ELSE "Single '}' encountered in format string"
    ELSE FormatError(tpl, i + 1)

RECURSIVE FormatText(_, _, _)
FormatText(tpl, i, v) ==
    IF i > Len(tpl) THEN <<>>
    ELSE IF tpl[i] \in {"{", "}"} /\ i < Len(tpl) /\ tpl[i + 1] = tpl[i]
         THEN <<tpl[i]>> \o FormatText(tpl, i + 2, v)
    ELSE IF tpl[i] = "{"
         THEN FieldText(v, SubSeq(tpl, i + 1, IndexOf(tpl, {"}"}, i + 1) - 1))
              \o FormatText(tpl, IndexOf(tpl, {"}"}, i + 1) + 1, v)
    ELSE <<tpl[i]>> \o FormatText(tpl, i + 1, v)

\* tpl.format(v): a str, or the ValueError of a malformed template
Format(tpl, v) ==
    IF FormatError(tpl, 1) # "" THEN Raise("ValueError", FormatError(tpl, 1))
    ELSE Str(FormatText(tpl, 1, v))

---------------------------------------------------------------------------
(* class Point *)

Point(x, y) == [t |-> "Point", x |-> x, y |-> y]

IsPoint(v) == v.t = "Point"

\* the text of the groups x and y when POINT_RE matches at index i of s (the
\* number pattern takes neither "," nor ")", so x runs to the first "," and
\* y to the first ")" after it), and the index of the closing ")"
PointComma(s, i) == IndexOf(s, {","}, i + 1)

PointClose(s, i) == IndexOf(s, {")"}, PointComma(s, i) + 1)

\* re.match of \((?P<x>F),(?P<y>F)\) at index i of s
POINT_RE(s, i) ==
    /\ i <= Len(s) /\ s[i] = "("
    /\ PointComma(s, i) > 0
    /\ FLOAT_RE(SubSeq(s, i + 1, PointComma(s, i) - 1))
    /\ PointClose(s, i) > 0
    /\ FLOAT_RE(SubSeq(s, PointComma(s, i) + 1, PointClose(s, i) - 1))

Point_from_string(s) ==
    IF ~POINT_RE(s, 1) THEN Raise("ValueError", "Value {} is not a valid point")
    ELSE Point(Float(SubSeq(s, 2, PointComma(s, 1) - 1)),
               Float(SubSeq(s, PointComma(s, 1) + 1, PointClose(s, 1) - 1)))

\* Point() with the default arguments x=0, y=0
Point_default == Point(PyInt(0), PyInt(0))

\* __str__: '({0.x},{0.y})'.format(self)
Point_str(p) ==
    Format(<<"(", "{", "0", ".", "x", "}", ",", "{", "0", ".", "y", "}", ")">>, p)

\* __eq__ and __ne__
Point_eq(a, b) == IsPoint(b) /\ PyEq(a.x, b.x) /\ PyEq(a.y, b.y)

Point_ne(a, b) == ~Point_eq(a, b)

\* l and r, where l is a bool or an exception on its way out
And(l, r) == IF l = Bool(TRUE) THEN r ELSE l

\* __lt__: isinstance(other, Point) and self.x <= other.x and self.y <=
\* other.y, which is the first operand that is false, else the last one; a
\* <= that raises leaves __lt__
Point_lt(a, b) ==
    IF ~IsPoint(b) THEN Bool(FALSE) ELSE And(PyLe(a.x, b.x), PyLe(a.y, b.y))

\* what functools.total_ordering derives from the result lt of __lt__:
\* not lt and self != other; lt or self == other; not lt
gt_from_lt(lt, ne) == IF lt.t = "raise" THEN lt ELSE Bool(~lt.v /\ ne)

le_from_lt(lt, eq) == IF lt.t = "raise" THEN lt ELSE Bool(lt.v \/ eq)

ge_from_lt(lt) == IF lt.t = "raise" THEN lt ELSE Bool(~lt.v)

Point_gt(a, b) == gt_from_lt(Point_lt(a, b), Point_ne(a, b))

Point_le(a, b) == le_from_lt(Point_lt(a, b), Point_eq(a, b))

Point_ge(a, b) == ge_from_lt(Point_lt(a, b))

---------------------------------------------------------------------------
(* class Circle *)

Circle(center, radius) == [t |-> "Circle", center |-> center, radius |-> radius]

IsCircle(v) == v.t = "Circle"

\* Circle.__init__ as it would be without the isinstance test on two arguments
Circle_init_any_pair(args) ==
    LET argc == Len(args)
    IN  IF argc = 1 THEN Circle(Point(PyInt(0), PyInt(0)), args[1])
        ELSE IF argc = 2 THEN Circle(args[1], args[2])
        ELSE IF argc = 3 THEN Circle(Point(args[1], args[2]), args[3])
        ELSE Raise("TypeError", "Invalid set of arguments {}")

\* Circle.__init__(self, *args); args is the tuple of positional arguments
Circle_init(args) ==
    LET argc == Len(args)
    IN  IF argc = 1 THEN Circle(Point_default, args[1])
        ELSE IF argc = 2 /\ IsPoint(args[1]) THEN Circle(args[1], args[2])
        ELSE IF argc = 3 THEN Circle(Point(args[1], args[2]), args[3])
        ELSE Raise("TypeError", "Invalid set of arguments {}")

\* the characters \s takes in a str pattern
Whitespace ==
    {" ", "\t", "\n", "\\x0b", "\f", "\r", "\\x1c", "\\x1d", "\\x1e", "\\x1f",
     "\\x85", "\\xa0", "\\u1680", "\\u2000", "\\u2001", "\\u2002", "\\u2003",
     "\\u2004", "\\u2005", "\\u2006", "\\u2007", "\\u2008", "\\u2009", "\\u200a",
     "\\u2028", "\\u2029", "\\u202f", "\\u205f", "\\u3000"}

\* index of the ">" that ends the radius when CIRCLE_RE matches s
CircleClose(s) == IndexOf(s, {">"}, PointClose(s, 2) + 3)

\* re.match of <POINT_RE,\s(?P<r>F)> at the start of s
CIRCLE_RE(s) ==
    /\ Len(s) > 0 /\ s[1] = "<"
    /\ POINT_RE(s, 2)
    /\ PointClose(s, 2) + 2 <= Len(s)
    /\ s[PointClose(s, 2) + 1] = ","
    /\ s[PointClose(s, 2) + 2] \in Whitespace
    /\ CircleClose(s) > 0
    /\ FLOAT_RE(SubSeq(s, PointClose(s, 2) + 3, CircleClose(s) - 1))

Circle_from_string(s) ==
    IF ~CIRCLE_RE(s) THEN Raise("ValueError", "Value {} is not a valid circle")
    ELSE Circle_init(<<Float(SubSeq(s, 3, PointComma(s, 2) - 1)),
                       Float(SubSeq(s, PointComma(s, 2) + 1, PointClose(s, 2) - 1)),
                       Float(SubSeq(s, PointClose(s, 2) + 3, CircleClose(s) - 1))>>)

Circle_eq(a, b) ==
    /\ IsCircle(b)
    /\ PyEq(a.center, b.center)
    /\ PyEq(a.radius, b.radius)

---------------------------------------------------------------------------
(* str(), == and <= on the values a Point or a Circle may hold *)

\* a bool is the int 1 or 0 wherever it is compared
AsNumber(v) == IF v.t = "bool" THEN PyInt(IF v.v THEN 1 ELSE 0) ELSE v

IsNumeric(v) == IsNumber(v) \/ v.t = "bool"

\* str(v) of a number, a bool, a str, a Point or None
PyStr(v) ==
    CASE IsNumber(v) -> NumStr(v)
      [] v.t = "bool" -> IF v.v THEN <<"T", "r", "u", "e">> ELSE <<"F", "a", "l", "s", "e">>
      [] v.t = "str" -> v.s
      [] v.t = "Point" -> Point_str(v).s
      [] v.t = "None" -> <<"N", "o", "n", "e">>

\* a == b: the __eq__ of a Point or a Circle when either is one (an int, a
\* float, a bool, None, a str, a list or a tuple leaves the comparison to
\* the other side), numbers by value, two lists or two tuples item by item
PyEq(a, b) ==
    IF IsNumeric(a) /\ IsNumeric(b) THEN NumEq(AsNumber(a), AsNumber(b))
    ELSE IF IsPoint(a) THEN Point_eq(a, b)
    ELSE IF IsCircle(a) THEN Circle_eq(a, b)
    ELSE IF IsPoint(b) THEN Point_eq(b, a)
    ELSE IF IsCircle(b) THEN Circle_eq(b, a)
    ELSE IF a.t \in {"list", "tuple"} /\ a.t = b.t
         THEN /\ Len(a.items) = Len(b.items)
              /\ \A k \in 1..Len(a.items) : PyEq(a.items[k], b.items[k])
    ELSE a.t = b.t /\ a = b

\* type(v).__name__
TypeName(v) == IF v.t = "None" THEN "NoneType" ELSE v.t

\* the printable ASCII characters, from code point 32 on (the grave accent,
\* which a TLA+ string cannot hold, leaves its place empty)
Ascii ==
    <<" ", "!", "\"", "#", "$", "%", "&", "'", "(", ")", "*", "+", ",", "-", ".", "/",
      "0", "1", "2", "3", "4", "5", "6", "7", "8", "9", ":", ";", "<", "=", ">", "?",
      "@", "A", "B", "C", "D", "E", "F", "G", "H", "I", "J", "K", "L", "M", "N", "O",
      "P", "Q", "R", "S", "T", "U", "V", "W", "X", "Y", "Z", "[", "\\", "]", "^", "_",
      "", "a", "b", "c", "d", "e", "f", "g", "h", "i", "j", "k", "l", "m", "n", "o",
      "p", "q", "r", "s", "t", "u", "v", "w", "x", "y", "z", "{", "|", "}", "~">>

\* the code points of the other characters \s takes
Spaces ==
    {<<"\t", 9>>, <<"\n", 10>>, <<"\\x0b", 11>>, <<"\f", 12>>, <<"\r", 13>>,
     <<"\\x1c", 28>>, <<"\\x1d", 29>>, <<"\\x1e", 30>>, <<"\\x1f", 31>>,
     <<"\\x85", 133>>, <<"\\xa0", 160>>, <<"\\u1680", 5760>>,
     <<"\\u2000", 8192>>, <<"\\u2001", 8193>>, <<"\\u2002", 8194>>,
     <<"\\u2003", 8195>>, <<"\\u2004", 8196>>, <<"\\u2005", 8197>>,
     <<"\\u2006", 8198>>, <<"\\u2007", 8199>>, <<"\\u2008", 8200>>,
     <<"\\u2009", 8201>>, <<"\\u200a", 8202>>, <<"\\u2028", 8232>>,
     <<"\\u2029", 8233>>, <<"\\u202f", 8239>>, <<"\\u205f", 8287>>,
     <<"\\u3000", 12288>>}

\* ord(c)
Ord(c) ==
    IF \E i \in 1..Len(Ascii) : Ascii[i] = c
    THEN 31 + CHOOSE i \in 1..Len(Ascii) : Ascii[i] = c
    ELSE (CHOOSE q \in Spaces : q[1] = c)[2]

\* the indexes within both a and b, and the least of a set of them
Shared(a, b) == 1..(IF Len(a) <= Len(b) THEN Len(a) ELSE Len(b))

Least(S) == CHOOSE i \in S : \A j \in S : i <= j

\* a <= b on str: by the code points of the first characters that differ,
\* else by length
StrLe(a, b) ==
    LET D == {i \in Shared(a, b) : a[i] # b[i]}
    IN  IF D = {} THEN Len(a) <= Len(b)
        ELSE Ord(a[Least(D)]) < Ord(b[Least(D)])

\* x <= y on the items of two lists or of two tuples, which differ at the
\* indexes D
ItemsLe(x, y, D) ==
    IF D = {} THEN Bool(Len(x) <= Len(y)) ELSE PyLe(x[Least(D)], y[Least(D)])

\* a <= b: a Point answers with its derived __le__; a number, None, a str,
\* a list, a tuple or a Circle leaves a comparison with a Point to
\* the Point's derived __ge__; two strs, two lists and two tuples compare
\* by their first items that are not equal, else by length; any other pair
\* of types is not ordered
PyLe(a, b) ==
    IF IsNumeric(a) /\ IsNumeric(b) THEN Bool(NumLe(AsNumber(a), AsNumber(b)))
    ELSE IF IsPoint(a) THEN Point_le(a, b)
    ELSE IF IsPoint(b) THEN Point_ge(b, a)
    ELSE IF a.t = "str" /\ b.t = "str" THEN Bool(StrLe(a.s, b.s))
    ELSE IF a.t \in {"list", "tuple"} /\ a.t = b.t
         THEN ItemsLe(a.items, b.items,
                      {i \in Shared(a.items, b.items) :
                           ~PyEq(a.items[i], b.items[i])})
    ELSE Raise("TypeError",
               "'<=' not supported between instances of '" \o TypeName(a)
               \o "' and '" \o TypeName(b) \o "'")

---------------------------------------------------------------------------
(* Truth value and length of a Python value *)

\* bool(v): Point and Circle define neither __bool__ nor __len__
Truthy(v) ==
    CASE v.t = "None" -> FALSE
      [] v.t \in {"list", "tuple"} -> Len(v.items) > 0
      [] v.t = "str" -> Len(v.s) > 0
      [] v.t = "bool" -> v.v
      [] IsNumber(v) -> SignNum(v) # 0
      [] OTHER -> TRUE

Iterable(v) == v.t \in {"list", "tuple", "str"}

---------------------------------------------------------------------------
(* class PointMixin *)

\* SPLIT_RE as it would be with a greedy ".*": a match runs to the last ")"
RECURSIVE SPLIT_RE_greedy(_, _)
SPLIT_RE_greedy(s, i) ==
    IF i > Len(s) THEN <<>>
    ELSE LET qs == {k \in (i + 1)..Len(s) : s[k] = ")"}
             q == CHOOSE k \in qs : \A j \in qs : j <= k
         IN  IF s[i] = "(" /\ (i = Len(s) \/ s[i + 1] # "(") /\ qs # {}
             THEN <<SubSeq(s, i, q)>> \o SPLIT_RE_greedy(s, q + 1)
             ELSE SPLIT_RE_greedy(s, i + 1)

\* re.findall(SPLIT_RE, s) from index i on: each match opens at a "(" that
\* is not followed by "(" and runs to the first ")" after it, with no line
\* break in between ("." takes none); the search resumes behind the match
RECURSIVE SPLIT_RE(_, _)
SPLIT_RE(s, i) ==
    IF i > Len(s) THEN <<>>
    ELSE LET q == IndexOf(s, {")"}, i + 1)
         IN  IF /\ s[i] = "("
                /\ (i = Len(s) \/ s[i + 1] # "(")
                /\ q > 0
                /\ \A k \in (i + 1)..(q - 1) : s[k] # "\n"
             THEN <<SubSeq(s, i, q)>> \o SPLIT_RE(s, q + 1)
             ELSE SPLIT_RE(s, i + 1)

\* list(Point.from_string(v) for v in groups): the first group that is no
\* point raises
PointsOf(groups) ==
    LET parsed == [k \in 1..Len(groups) |-> Point_from_string(groups[k])]
        bad == {k \in 1..Len(groups) : parsed[k].t = "raise"}
    IN  IF bad = {} THEN List(parsed)
        ELSE parsed[CHOOSE k \in bad : \A j \in bad : k <= j]

\* all(isinstance(v, Point) for v in values): the items of a str are strs
AllPoints(values) ==
    IF values.t = "str" THEN Len(values.s) = 0
    ELSE \A k \in 1..Len(values.items) : IsPoint(values.items[k])

PointMixin_to_python(values) ==
    IF values.t = "None" THEN None
    ELSE IF ~Iterable(values) THEN Raise("TypeError", "Value {} is not iterable")
    ELSE IF AllPoints(values) THEN values
    ELSE IF values.t # "str" THEN Raise("TypeError", "expected string or bytes-like object")
    ELSE PointsOf(SPLIT_RE(values.s, 1))

RECURSIVE Join(_, _)
Join(texts, sep) ==
    IF Len(texts) = 0 THEN <<>>
    ELSE IF Len(texts) = 1 THEN texts[1]
    ELSE texts[1] \o sep \o Join(Tail(texts), sep)

\* _get_prep_value as it would be with "if values is not None"
PointMixin_get_prep_value_not_none(values) ==
    IF values.t # "None"
    THEN Str(Join([k \in 1..Len(values.items) |-> Point_str(values.items[k]).s], <<",">>))
    ELSE None

\* ','.join(str(v) for v in values) if values else None
PointMixin_get_prep_value(values) ==
    IF Truthy(values)
    THEN Str(Join([k \in 1..Len(values.items) |-> Point_str(values.items[k]).s], <<",">>))
    ELSE None

---------------------------------------------------------------------------
(* The fields *)

\* the tail of the sequence fields' get_prep_value: tpl.format(values) if values else None
Wrap(tpl, values) == IF Truthy(values) THEN Format(tpl, values) ELSE None

SegmentPathField_get_prep_value(values) ==
    IF Truthy(values) /\ Len(values.items) < 2
    THEN Raise("ValueError", "Needs at minimum 2 points")
    ELSE Wrap(<<"[", "{", "}", "]">>, PointMixin_get_prep_value(values))

\* PolygonField.get_prep_value as it would be with the closure test first
PolygonField_closure_first(values) ==
    IF Truthy(values) /\ Point_ne(values.items[1], values.items[Len(values.items)])
    THEN Raise("ValueError", "Not self-closing polygon")
    ELSE IF Truthy(values) /\ Len(values.items) < 3
    THEN Raise("ValueError", "Needs at minimum 3 points")
    ELSE Wrap(<<"(", "{", "}", ")">>, PointMixin_get_prep_value(values))

PolygonField_get_prep_value(values) ==
    IF Truthy(values) /\ Len(values.items) < 3
    THEN Raise("ValueError", "Needs at minimum 3 points")
    ELSE IF Truthy(values) /\ Point_ne(values.items[1], values.items[Len(values.items)])
    THEN Raise("ValueError", "Not self-closing polygon")
    ELSE Wrap(<<"(", "{", "}", ")">>, PointMixin_get_prep_value(values))

\* SegmentField.get_prep_value as it would be with "len(value) > 2"
SegmentField_at_most_two(value) ==
    IF Truthy(value) /\ Len(value.items) > 2
    THEN Raise("ValueError", "Segment needs exactly two points")
    ELSE PointMixin_get_prep_value(value)

SegmentField_get_prep_value(value) ==
    IF Truthy(value) /\ Len(value.items) # 2
    THEN Raise("ValueError", "Segment needs exactly two points")
    ELSE PointMixin_get_prep_value(value)

BoxField_get_prep_value(value) ==
    IF Truthy(value) /\ Len(value.items) # 2
    THEN Raise("ValueError", "Box needs exactly two points")
    ELSE PointMixin_get_prep_value(value)

PointField_to_python(value) ==
    IF IsPoint(value) \/ value.t = "None" THEN value
    ELSE Point_from_string(value.s)

\* PointField.get_prep_value as it would be if the origin were falsy
PointField_origin_is_none(value) ==
    IF Truthy(value) /\ ~(NumEq(value.x, PyInt(0)) /\ NumEq(value.y, PyInt(0)))
    THEN Format(<<"(", "{", "0", ".", "x", "}", ",", "{", "0", ".", "y", "}", ")">>, value)
    ELSE None

\* '({0.x},{0.y})'.format(value) if value else None
PointField_get_prep_value(value) ==
    IF Truthy(value)
    THEN Format(<<"(", "{", "0", ".", "x", "}", ",", "{", "0", ".", "y", "}", ")">>, value)
    ELSE None

CircleField_to_python(value) ==
    IF value.t = "None" \/ IsCircle(value) THEN value
    ELSE Circle_from_string(value.s)

\* "<{0.center.x}, {0.center.y}}, {0.radius}>".format(value) if value, else None
CircleField_get_prep_value(value) ==
    IF Truthy(value)
    THEN Format(<<"<", "{", "0", ".", "c", "e", "n", "t", "e", "r", ".", "x", "}", ",", " ",
                  "{", "0", ".", "c", "e", "n", "t", "e", "r", ".", "y", "}", "}", ",", " ",
                  "{", "0", ".", "r", "a", "d", "i", "u", "s", "}", ">">>, value)
    ELSE None

---------------------------------------------------------------------------
(* Inputs *)

IntCoords == {0, 1, 2}

\* Point(i, j) with int coordinates, and Point(1.0, 1.0), Point(-1.5, 0.5),
\* Point(1e-05, -2), Point(-0.0, 2.5)
Points ==
    {Point(PyInt(i), PyInt(j)) : i, j \in IntCoords}
    \cup {Point(PyFloat(10, 0 - 1), PyFloat(10, 0 - 1)),
          Point(PyFloat(0 - 15, 0 - 1), PyFloat(5, 0 - 1)),
          Point(PyFloat(1, 0 - 5), PyInt(0 - 2)),
          Point(NegZero, PyFloat(25, 0 - 1))}

\* the points compared: those above, points of ten digits, of a digit under
\* 1e-15, and points whose coordinates are no numbers
ComparedPoints ==
    Points
    \cup {Point(PyInt(1234567891), PyInt(0)),
          Point(PyInt(1234567890), PyFloat(123456789, 1)),
          Point(PyFloat(1234567891, 0 - 9), PyFloat(123456789, 0 - 8)),
          Point(Str(<<"a">>), PyInt(1)),
          Point(PyInt(0), None),
          Point(Point(PyInt(1), PyInt(1)), PyInt(1)),
          Point(List(<<PyInt(1)>>), PyInt(0)),
          Point(Tuple(<<PyInt(1)>>), PyInt(0))}

SeqsUpTo(S, n) == UNION {[1..k -> S] : k \in 0..n}

\* what a sequence field holds: None, or a list of at most MaxLen points
PointLists == {None} \cup {List(q) : q \in SeqsUpTo(Points, MaxLen)}

\* Circle(p, r) for a few centres and radii
Circles ==
    {Circle(p, r) : p \in {Point_default, Point(PyInt(1), PyInt(2)),
                           Point(PyFloat(0 - 15, 0 - 1), PyFloat(5, 0 - 1))},
                    r \in {PyInt(0), PyInt(1), PyFloat(15, 0 - 1)}}

\* positional arguments of Circle(...): numbers and a Point
ArgValues == {PyInt(1), PyInt(2), PyInt(3), Point(PyInt(1), PyInt(2))}

ArgTuples == SeqsUpTo(ArgValues, MaxArgs)

\* texts handed to PointMixin.to_python: without any group, with groups that
\* are points, with groups that are not
SequenceTexts ==
    {<<>>,
     <<"a", "b", "c">>,
     <<"1", ",", "2">>,
     <<"[", "]">>,
     <<")", "(">>,
     <<"(", "1", ",", "1">>,
     <<"(", "(">>,
     <<"(", ")">>,
     <<"(", "1", ",", ")">>,
     <<"(", "a", ",", "b", ")">>,
     <<"(", "1", ",", "1", ")">>,
     <<"(", "1", ",", "1", ")", ",", "(", "2", ",", "2", ")">>,
     <<"[", "(", "1", ",", "1", ")", ",", "(", "2", ".", "5", ",", "-", "2", ")", "]">>,
     <<"(", "(", "0", ",", "0", ")", ",", "(", "1", ",", "1", ")", ",", "(", "0", ",", "0", ")", ")">>,
     <<"(", ".", "5", ",", "-", ".", "5", ")", "(", "1", "e", "2", ",", "+", "3", ")">>,
     <<"(", "1", ",", "1", ")", ",", "(", "x", ")">>}

\* what PointMixin.to_python is handed directly
SequenceValues ==
    {None, PyInt(1), List(<<>>), List(<<Point_default>>), List(<<PyInt(1)>>),
     Tuple(<<Point_default, Point(PyInt(1), PyInt(2))>>)}
    \cup {Str(w) : w \in SequenceTexts}

PointTexts ==
    {<<"(", "1", ",", "1", ")">>,
     <<"(", "-", "1", ".", "5", ",", ".", "5", ")">>,
     <<"(", "1", ",", "1", ")", "x">>,
     <<"(", "1", ",", " ", "1", ")">>,
     <<"(", "1", ".", ",", "1", ")">>,
     <<"(", "-", "0", ",", "0", ")">>,
     <<"(", "1", "e", "4", "0", "0", ",", "-", "1", "e", "-", "4", "0", "0", ")">>,
     <<"(", "3", "e", "-", "3", "2", "4", ",", "1", ".", "8", "e", "3", "0", "8", ")">>,
     <<"(", "1", ".", "2", "e", "-", "3", "2", "3", ",",
       "0", ".", "3", "0", "0", "0", "0", "0", "0", "0", "0", "0", "0", "0", "0", "0", "0", "0", "0", "4", ")">>,
     <<"(", "9", "0", "0", "7", "1", "9", "9", "2", "5", "4", "7", "4", "0", "9", "9", "3", ",",
       "1", "e", "2", "1", "4", "7", "4", "8", "3", "6", "4", "8", ")">>,
     <<"a", "b", "c">>,
     <<"(", ")">>,
     <<>>}

PointValues == {None, Point_default} \cup {Str(w) : w \in PointTexts}

CircleTexts ==
    {<<"<", "(", "1", ",", "1", ")", ",", " ", "1", ".", "5", ">">>,
     <<"<", "(", "1", ",", "1", ")", ",", " ", "-", ".", "5", ">">>,
     <<"<", "(", "1", ",", "1", ")", ",", "1", ">">>,
     <<"<", "(", "1", ",", "1", ")", ",", "\f", "1", ">">>,
     <<"<", "(", "1", ",", "1", ")", ",", "\\xa0", "1", ">">>,
     <<"<", "(", "1", ",", "1", ")", ",", " ", "1", ".", "2", "3", "e", "-", "3", "2", "2", ">">>,
     <<"<", "1", ",", " ", "1", ",", " ", "1", ">">>,
     <<"<", "1", ",", " ", "1", "}", ",", " ", "1", ">">>,
     <<>>}

CircleValues ==
    {None, Circle(Point_default, PyInt(1))} \cup {Str(w) : w \in CircleTexts}

---------------------------------------------------------------------------
(* The calls.  A behaviour is one call into the module, and then possibly  *)
(* the to_python of the same field on the text that get_prep_value         *)
(* prepared, either as it is or as the database gives it back.             *)

NoCall == "none"

NoOrig == [call |-> NoCall, arg |-> None]

SequencePreps ==
    {"SegmentPathField.get_prep_value", "PolygonField.get_prep_value",
     "SegmentField.get_prep_value", "BoxField.get_prep_value"}

PointPreps == {"PointField.get_prep_value", "Point.__str__"}

CirclePreps == {"CircleField.get_prep_value"}

\* the text of coordinate x, or y, of the k-th point of the text s
CoordText(s, k, axis) ==
    LET g == SPLIT_RE(s, 1)[k]
    IN  IF axis = "x" THEN SubSeq(g, 2, PointComma(g, 1) - 1)
        ELSE SubSeq(g, PointComma(g, 1) + 1, PointClose(g, 1) - 1)

\* the greater and the lesser of two coordinate texts
HigherText(a, b) == IF NumLe(Float(a), Float(b)) THEN b ELSE a

LowerText(a, b) == IF NumLe(Float(a), Float(b)) THEN a ELSE b

\* the database behind a BoxField, which is no part of fields.py: a box
\* column gives back, for the text of two corners saved in it, the
\* upper-right corner followed by the lower-left one
BoxColumn(s) ==
    <<"(">> \o HigherText(CoordText(s, 1, "x"), CoordText(s, 2, "x"))
    \o <<",">> \o HigherText(CoordText(s, 1, "y"), CoordText(s, 2, "y"))
    \o <<")", ",", "(">> \o LowerText(CoordText(s, 1, "x"), CoordText(s, 2, "x"))
    \o <<",">> \o LowerText(CoordText(s, 1, "y"), CoordText(s, 2, "y"))
    \o <<")">>

\* the values a to_python is handed: the given ones on a first call; on a
\* second, the text its own field has prepared, or, for a BoxField loaded
\* from the database, the text the box column gives back for it
Handed(given, preps) ==
    IF call = NoCall THEN given
    ELSE IF call \in preps /\ ret.t = "str"
         THEN {ret} \cup (IF call = "BoxField.get_prep_value"
                          THEN {Str(BoxColumn(ret.s))} ELSE {})
    ELSE {}

\* the call name(v) ends with result; from is the call it was read back from
Called(name, v, result, from) ==
    /\ call' = name
    /\ arg' = v
    /\ ret' = result
    /\ orig' = from

Init ==
    /\ call = NoCall
    /\ arg = None
    /\ ret = None
    /\ orig = NoOrig

SegmentPathField_prep ==
    /\ call = NoCall
    /\ \E v \in PointLists :
           Called("SegmentPathField.get_prep_value", v, SegmentPathField_get_prep_value(v), NoOrig)

PolygonField_prep ==
    /\ call = NoCall
    /\ \E v \in PointLists :
           Called("PolygonField.get_prep_value", v, PolygonField_get_prep_value(v), NoOrig)

SegmentField_prep ==
    /\ call = NoCall
    /\ \E v \in PointLists :
           Called("SegmentField.get_prep_value", v, SegmentField_get_prep_value(v), NoOrig)

BoxField_prep ==
    /\ call = NoCall
    /\ \E v \in PointLists :
           Called("BoxField.get_prep_value", v, BoxField_get_prep_value(v), NoOrig)

PointField_prep ==
    /\ call = NoCall
    /\ \E v \in Points \cup {None} :
           Called("PointField.get_prep_value", v, PointField_get_prep_value(v), NoOrig)

CircleField_prep ==
    /\ call = NoCall
    /\ \E v \in Circles \cup {None} :
           Called("CircleField.get_prep_value", v, CircleField_get_prep_value(v), NoOrig)

Point_str_call ==
    /\ call = NoCall
    /\ \E p \in Points :
           Called("Point.__str__", p, Point_str(p), NoOrig)

Circle_new ==
    /\ call = NoCall
    /\ \E args \in ArgTuples :
           Called("Circle.__init__", Tuple(args), Circle_init(args), NoOrig)

\* a < b, a > b, b < a, b > a, a <= b, a >= b and a == b of two points
Compare(a, b) ==
    [t |-> "cmp", lt |-> Point_lt(a, b), gt |-> Point_gt(a, b),
     rlt |-> Point_lt(b, a), rgt |-> Point_gt(b, a),
     le |-> Point_le(a, b), ge |-> Point_ge(a, b), eq |-> Bool(Point_eq(a, b))]

Point_compare ==
    /\ call = NoCall
    /\ \E a, b \in ComparedPoints :
           Called("Point.compare", List(<<a, b>>), Compare(a, b), NoOrig)

Sequence_to_python ==
    /\ call \in {NoCall} \cup SequencePreps \cup PointPreps \cup CirclePreps
    /\ \E v \in Handed(SequenceValues, SequencePreps) :
           Called("PointMixin.to_python", v, PointMixin_to_python(v), [call |-> call, arg |-> arg])

Point_to_python ==
    /\ call \in {NoCall} \cup SequencePreps \cup PointPreps \cup CirclePreps
    /\ \E v \in Handed(PointValues, PointPreps) :
           Called("PointField.to_python", v, PointField_to_python(v), [call |-> call, arg |-> arg])

Circle_to_python ==
    /\ call \in {NoCall} \cup SequencePreps \cup PointPreps \cup CirclePreps
    /\ \E v \in Handed(CircleValues, CirclePreps) :
           Called("CircleField.to_python", v, CircleField_to_python(v), [call |-> call, arg |-> arg])

Next ==
    \/ SegmentPathField_prep
    \/ PolygonField_prep
    \/ SegmentField_prep
    \/ BoxField_prep
    \/ PointField_prep
    \/ CircleField_prep
    \/ Point_str_call
    \/ Circle_new
    \/ Point_compare
    \/ Sequence_to_python
    \/ Point_to_python
    \/ Circle_to_python

Spec == Init /\ [][Next]_vars

---------------------------------------------------------------------------
(* Properties *)

NonEmptyList(v) == v.t = "list" /\ Len(v.items) > 0

CountMessages ==
    {"Needs at minimum 2 points", "Needs at minimum 3 points",
     "Segment needs exactly two points", "Box needs exactly two points"}

\* the count of points field `name` refuses, and the message it refuses with
CountViolated(name, n) ==
    CASE name = "SegmentPathField.get_prep_value" -> n < 2
      [] name = "PolygonField.get_prep_value" -> n < 3
      [] name = "SegmentField.get_prep_value" -> n # 2
      [] name = "BoxField.get_prep_value" -> n # 2

CountMessage(name) ==
    CASE name = "SegmentPathField.get_prep_value" -> "Needs at minimum 2 points"
      [] name = "PolygonField.get_prep_value" -> "Needs at minimum 3 points"
      [] name = "SegmentField.get_prep_value" -> "Segment needs exactly two points"
      [] name = "BoxField.get_prep_value" -> "Box needs exactly two points"

\* C1: on a non-empty sequence of points, get_prep_value of a sequence field
\* raises ValueError with the field's count message exactly when the number
\* of points violates the field's constraint (Path < 2, Polygon < 3, Segment
\* and Box # 2); when it raises no text is returned, and when the constraint
\* is met no count error is raised.
C1_CountErrors ==
    (call \in SequencePreps /\ NonEmptyList(arg)) =>
        IF CountViolated(call, Len(arg.items))
        THEN ret = Raise("ValueError", CountMessage(call))
        ELSE ~(ret.t = "raise" /\ ret.msg \in CountMessages)

C1_Witness ==
    /\ call = "SegmentField.get_prep_value"
    /\ arg.t = "list" /\ Len(arg.items) = 3
    /\ ret = Raise("ValueError", "Segment needs exactly two points")

\* the first and the last point of a list have the same coordinates
Closed(v) ==
    /\ NumEq(v.items[1].x, v.items[Len(v.items)].x)
    /\ NumEq(v.items[1].y, v.items[Len(v.items)].y)

TextsOf(v) == [k \in 1..Len(v.items) |-> Point_str(v.items[k]).s]

\* C2: PolygonField.get_prep_value checks the count before the closure: a
\* non-empty sequence of fewer than 3 points fails with 'Needs at minimum 3
\* points' whatever its ends are; a sequence of 3 or more points fails with
\* 'Not self-closing polygon' exactly when its first point differs from its
\* last, and otherwise returns the joined points between "(" and ")".
C2_PolygonOrder ==
    (call = "PolygonField.get_prep_value" /\ NonEmptyList(arg)) =>
        IF Len(arg.items) < 3
        THEN ret = Raise("ValueError", "Needs at minimum 3 points")
        ELSE IF ~Closed(arg)
        THEN ret = Raise("ValueError", "Not self-closing polygon")
        ELSE ret = Str(<<"(">> \o Join(TextsOf(arg), <<",">>) \o <<")">>)

C2_Witness ==
    /\ call = "PolygonField.get_prep_value"
    /\ arg.t = "list" /\ Len(arg.items) = 2 /\ ~Closed(arg)
    /\ ret = Raise("ValueError", "Needs at minimum 3 points")

\* C3: get_prep_value of every sequence field returns None for None and for
\* an empty sequence: no error and no empty or bracket-only text.
C3_NullPassthrough ==
    (call \in SequencePreps /\ (arg = None \/ arg = List(<<>>))) => ret = None

C3_Witness ==
    /\ call = "PolygonField.get_prep_value"
    /\ arg = List(<<>>)
    /\ ret = None

NumMax(a, b) == IF NumLe(a, b) THEN b ELSE a

NumMin(a, b) == IF NumLe(a, b) THEN a ELSE b

\* the upper-right and the lower-left corner of the box two points span
UpperRight(a, b) == Point(NumMax(a.x, b.x), NumMax(a.y, b.y))

LowerLeft(a, b) == Point(NumMin(a.x, b.x), NumMin(a.y, b.y))

SameCoords(p, q) == NumEq(p.x, q.x) /\ NumEq(p.y, q.y)

\* C4: BoxField.get_prep_value of two opposite corners, in either
\* order, returns the text of the upper-right corner followed by the
\* lower-left one.
C4_BoxCanonical ==
    (call = "BoxField.get_prep_value" /\ arg.t = "list" /\ Len(arg.items) = 2) =>
        /\ ret.t = "str"
        /\ LET out == PointsOf(SPLIT_RE(ret.s, 1))
           IN  /\ out.t = "list" /\ Len(out.items) = 2
               /\ SameCoords(out.items[1], UpperRight(arg.items[1], arg.items[2]))
               /\ SameCoords(out.items[2], LowerLeft(arg.items[1], arg.items[2]))

\* the corners in canonical order
Canonical(items) ==
    <<UpperRight(items[1], items[2]), LowerLeft(items[1], items[2])>>

SameItems(xs, ys) ==
    /\ Len(xs) = Len(ys)
    /\ \A k \in 1..Len(xs) : SameCoords(xs[k], ys[k])

ReadBack == call = "PointMixin.to_python" /\ orig.call \in SequencePreps

\* C5: get_prep_value of a valid sequence returns its text, in "[" "]" for
\* SegmentPathField, in "(" ")" for PolygonField and bare for SegmentField,
\* and to_python of the text read back is a list of Points equal to the
\* sequence, item by item in the same order, and for BoxField equal to it up
\* to the canonical order of the corners.
C5_SequenceRoundTrip ==
    /\ (call \in SequencePreps /\ ret.t = "str") =>
            LET joined == Join(TextsOf(arg), <<",">>)
            IN  CASE call = "SegmentPathField.get_prep_value" ->
                         ret.s = <<"[">> \o joined \o <<"]">>
                  [] call = "PolygonField.get_prep_value" ->
                         ret.s = <<"(">> \o joined \o <<")">>
                  [] call = "SegmentField.get_prep_value" -> ret.s = joined
                  [] call = "BoxField.get_prep_value" -> TRUE
    /\ ReadBack =>
            /\ ret.t = "list"
            /\ \A k \in 1..Len(ret.items) : IsPoint(ret.items[k])
            /\ IF orig.call = "BoxField.get_prep_value"
               THEN /\ Len(ret.items) = 2
                    /\ SameItems(Canonical(ret.items), Canonical(orig.arg.items))
               ELSE SameItems(ret.items, orig.arg.items)

C5_Witness ==
    /\ ReadBack
    /\ orig.call = "PolygonField.get_prep_value"
    /\ Len(orig.arg.items) = 3
    /\ orig.arg.items[2].x.t = "float"
    /\ SameItems(ret.items, orig.arg.items)

\* C6: CircleField.get_prep_value of a Circle does not raise: it returns a
\* text, and Circle.from_string of that text is a Circle equal to the one
\* given.
C6_CircleRoundTrip ==
    (call = "CircleField.get_prep_value" /\ arg.t = "Circle") =>
        /\ ret.t = "str"
        /\ Circle_eq(Circle_from_string(ret.s), arg)

\* C7: a Point, the origin included, is formatted as the text "(x,y)" by
\* str() and by PointField.get_prep_value, never turned into None, and
\* Point.from_string of that text is a Point equal to it.
C7_PointRoundTrip ==
    /\ (call \in PointPreps /\ arg.t = "Point") =>
            ret = Str(<<"(">> \o NumStr(arg.x) \o <<",">> \o NumStr(arg.y) \o <<")">>)
    /\ (call = "PointField.to_python" /\ orig.call \in PointPreps) =>
            /\ orig.arg.t = "Point"
            /\ IsPoint(ret)
            /\ SameCoords(ret, orig.arg)

C7_Witness ==
    /\ call = "PointField.to_python"
    /\ orig.call = "PointField.get_prep_value"
    /\ orig.arg = Point(PyInt(0), PyInt(0))
    /\ arg = Str(<<"(", "0", ",", "0", ")">>)
    /\ IsPoint(ret)

\* C8: Circle(r) has centre (0,0) and radius r, Circle(p, r) with p a Point
\* has centre p and radius r, Circle(x, y, r) has centre (x,y) and radius r;
\* no argument, two arguments the first of which is no Point, and four or
\* more arguments raise TypeError and give no Circle.
C8_CircleArguments ==
    call = "Circle.__init__" =>
        LET a == arg.items
        IN  CASE Len(a) = 1 -> ret = Circle(Point(PyInt(0), PyInt(0)), a[1])
              [] Len(a) = 2 /\ a[1].t = "Point" -> ret = Circle(a[1], a[2])
              [] Len(a) = 3 -> ret = Circle(Point(a[1], a[2]), a[3])
              [] OTHER -> ret.t = "raise" /\ ret.exc = "TypeError"

C8_Witness ==
    /\ call = "Circle.__init__"
    /\ Len(arg.items) = 2 /\ arg.items[1].t # "Point"
    /\ ret.t = "raise" /\ ret.exc = "TypeError"

\* both coordinates of p are numbers
NumberPoint(p) == IsNumber(p.x) /\ IsNumber(p.y)

\* one point lies strictly left of and strictly above the other
Incomparable(a, b) ==
    \/ ~NumLe(b.x, a.x) /\ ~NumLe(a.y, b.y)
    \/ ~NumLe(a.x, b.x) /\ ~NumLe(b.y, a.y)

\* C9: for points a and b that are equal, or incomparable like (1,2) and
\* (2,1), none of a < b, b < a, a > b, b > a holds.
C9_PartialOrder ==
    (call = "Point.compare"
        /\ NumberPoint(arg.items[1]) /\ NumberPoint(arg.items[2])
        /\ (SameCoords(arg.items[1], arg.items[2]) \/ Incomparable(arg.items[1], arg.items[2]))) =>
        /\ ret.lt = Bool(FALSE) /\ ret.rlt = Bool(FALSE)
        /\ ret.gt = Bool(FALSE) /\ ret.rgt = Bool(FALSE)

\* s holds no "(" that a later ")" closes
NoGroup(s) == \A i, j \in 1..Len(s) : ~(i < j /\ s[i] = "(" /\ s[j] = ")")

\* C10: PointMixin.to_python of a text without any parenthesized group, the
\* empty text included, returns an empty list: no error, and never the text
\* itself.
C10_NoGroups ==
    (call = "PointMixin.to_python" /\ arg.t = "str" /\ NoGroup(arg.s)) => ret = List(<<>>)

=============================================================================
